---- MODULE Spec2Model ----
(***************************************************************************)
(* PSGAN makeup-transfer generator (ppgan/models/generators/makeup.py).    *)
(*                                                                         *)
(* Two views of the forward pass are modelled.                             *)
(*   - The shape view: a tensor is the tuple of its dimensions; every      *)
(*     layer is the function it induces on shapes, and a layer the tensor  *)
(*     engine rejects yields a raised error that every later step hands    *)
(*     on untouched (a Python exception leaving forward).                  *)
(*   - The value view of the attention core of MANet.forward (lines        *)
(*     299-323) for one batch element: exact rational arithmetic on small  *)
(*     integer feature values.                                             *)
(***************************************************************************)
EXTENDS Integers, Sequences, FiniteSets, TLC

----------------------------------------------------------------------------
(* Bounds of the model. *)

\* image heights and widths are drawn from 1..MaxSize
MaxSize == 8
\* batch sizes are drawn from 1..MaxB
MaxB == 2
\* conv_dim is drawn from 1..MaxConvDim
MaxConvDim == 2
\* repeat_num is drawn from 0..MaxRepeat
MaxRepeat == 1
\* side channels x_p / y_p carry 1..MaxSide channels when present
MaxSide == 2
\* ResidualBlock dim_in / dim_out are drawn from 1..MaxDim
MaxDim == 3
\* value view: channels of the encoded feature maps
NumChan == 1
\* value view: source positions (rows of the attention matrix)
NumSrc == 1
\* value view: reference positions (columns of the attention matrix)
NumRef == 2

----------------------------------------------------------------------------
(* Tensors of the shape view, and raised errors. *)

None == [ok |-> FALSE, shape |-> <<>>, err |-> "None", at |-> ""]

Tensor(s) == [ok |-> TRUE, shape |-> s, err |-> "", at |-> ""]

Raise(e, site) == [ok |-> FALSE, shape |-> <<>>, err |-> e, at |-> site]

ShapeMismatch(site) == Raise("ShapeMismatch", site)

IsNone(t) == t.err = "None"

IsRaised(t) == (~t.ok) /\ ~IsNone(t)

RECURSIVE Numel(_)
Numel(s) == IF s = <<>> THEN 1 ELSE Head(s) * Numel(Tail(s))

\* Output length of a convolution along one axis. A window that does not fit
\* the padded input leaves no output position: 0, which Conv2D rejects (the
\* convolution itself belongs to the tensor engine, outside this file; only
\* the 4x4 stride-2 padding-1 convolutions on a length-1 axis come here).
ConvOut(n, k, s, p) == IF n + 2 * p < k THEN 0 ELSE ((n + 2 * p - k) \div s) + 1

\* (mutation of ConvTransposeOut: the padding is not taken off)
ConvTransposeOut_nopad(n, k, s, p) == (n - 1) * s + k

\* Output length of a transposed convolution along one axis.
ConvTransposeOut(n, k, s, p) == (n - 1) * s - 2 * p + k

\* nn.Conv2D(cin, cout, kernel_size=k, stride=s, padding=p) applied to t.
Conv2D(t, cin, cout, k, s, p, site) ==
    IF ~t.ok THEN t
    ELSE IF Len(t.shape) # 4 \/ t.shape[2] # cin THEN ShapeMismatch(site)
    ELSE LET ho == ConvOut(t.shape[3], k, s, p)
             wo == ConvOut(t.shape[4], k, s, p)
         IN  IF ho <= 0 \/ wo <= 0 THEN ShapeMismatch(site)
             ELSE Tensor(<<t.shape[1], cout, ho, wo>>)

\* nn.Conv2DTranspose(cin, cout, kernel_size=k, stride=s, padding=p) applied to t.
Conv2DTranspose(t, cin, cout, k, s, p, site) ==
    IF ~t.ok THEN t
    ELSE IF Len(t.shape) # 4 \/ t.shape[2] # cin THEN ShapeMismatch(site)
    ELSE Tensor(<<t.shape[1], cout,
                  ConvTransposeOut(t.shape[3], k, s, p),
                  ConvTransposeOut(t.shape[4], k, s, p)>>)

\* nn.InstanceNorm2D(c): normalises each channel over its spatial positions.
InstanceNorm2D(t, c, site) ==
    IF ~t.ok THEN t
    ELSE IF Len(t.shape) # 4 \/ t.shape[2] # c THEN ShapeMismatch(site)
    ELSE t

\* nn.ReLU, paddle.tanh, F.softmax, scalar * tensor: element-wise, shape kept.
Elementwise(t) == t

\* Shape of an element-wise binary operation with broadcasting: the shapes are
\* aligned at their last axes; two lengths are compatible when they are equal
\* or one of them is 1.
BroadcastDim(a, b) == IF a = b THEN a ELSE IF a = 1 THEN b ELSE IF b = 1 THEN a ELSE 0

Broadcast(t, u, site) ==
    IF ~t.ok THEN t
    ELSE IF ~u.ok THEN u
    ELSE IF Len(t.shape) # Len(u.shape) THEN ShapeMismatch(site)
    ELSE IF \E i \in 1..Len(t.shape) :
                /\ t.shape[i] # u.shape[i]
                /\ t.shape[i] # 1
                /\ u.shape[i] # 1
         THEN ShapeMismatch(site)
    ELSE Tensor([i \in 1..Len(t.shape) |-> BroadcastDim(t.shape[i], u.shape[i])])

\* t.reshape([-1] + rest): the leading length is inferred from the element count.
ReshapeInfer(t, rest, site) ==
    IF ~t.ok THEN t
    ELSE LET d == Numel(rest)
             n == Numel(t.shape)
         IN  IF d = 0 \/ n % d # 0 THEN ShapeMismatch(site)
             ELSE Tensor(<<n \div d>> \o rest)

\* paddle.concat([t, u], axis=1) of two rank-3 tensors.
Concat1(t, u, site) ==
    IF ~t.ok THEN t
    ELSE IF ~u.ok THEN u
    ELSE IF Len(u.shape) # 3 \/ u.shape[1] # t.shape[1] \/ u.shape[3] # t.shape[3]
         THEN ShapeMismatch(site)
    ELSE Tensor(<<t.shape[1], t.shape[2] + u.shape[2], t.shape[3]>>)

\* (mutation of Matmul: the contracted lengths are not compared)
Matmul_unchecked(t, u, tx, site) ==
    IF ~t.ok THEN t
    ELSE IF ~u.ok THEN u
    ELSE LET rows == IF tx THEN t.shape[3] ELSE t.shape[2]
             b    == BroadcastDim(t.shape[1], u.shape[1])
         IN  IF b = 0 THEN ShapeMismatch(site)
             ELSE Tensor(<<b, rows, u.shape[3]>>)

\* paddle.matmul(t, u, transpose_x=tx) of two rank-3 tensors: the batch axis
\* broadcasts, the contracted lengths must agree.
Matmul(t, u, tx, site) ==
    IF ~t.ok THEN t
    ELSE IF ~u.ok THEN u
    ELSE LET rows  == IF tx THEN t.shape[3] ELSE t.shape[2]
             inner == IF tx THEN t.shape[2] ELSE t.shape[3]
             b     == BroadcastDim(t.shape[1], u.shape[1])
         IN  IF inner # u.shape[2] \/ b = 0 THEN ShapeMismatch(site)
             ELSE Tensor(<<b, rows, u.shape[3]>>)

----------------------------------------------------------------------------
(* ResidualBlock (lines 40-73). *)

\* The values of the mode argument tried: 't', 'p', the default None, and two
\* values __init__ does not recognise.
Modes == {"t", "p", "None", "T", "x"}

\* ResidualBlock.__init__: weight_attr and bias_attr are assigned in the two
\* branches of the if/elif only; with any other mode the names are unbound
\* when nn.InstanceNorm2D(dim_out, weight_attr=weight_attr, ...) reads them.
ResidualBlock_init(dim_in, dim_out, mode) ==
    IF mode = "t"
    THEN [ok |-> TRUE, dim_in |-> dim_in, dim_out |-> dim_out,
          weight_attr |-> "False", bias_attr |-> "False", err |-> ""]
    ELSE IF mode = "p" \/ mode = "None"
    THEN [ok |-> TRUE, dim_in |-> dim_in, dim_out |-> dim_out,
          weight_attr |-> "None", bias_attr |-> "None", err |-> ""]
    ELSE [ok |-> FALSE, dim_in |-> dim_in, dim_out |-> dim_out,
          weight_attr |-> "unbound", bias_attr |-> "unbound",
          err |-> "UnboundLocalError"]

\* self.main of a ResidualBlock: conv 3x3, norm, ReLU, conv 3x3, norm.
ResidualBlock_main(dim_in, dim_out, t) ==
    LET c1 == Conv2D(t, dim_in, dim_out, 3, 1, 1, "ResidualBlock.main")
        n1 == Elementwise(InstanceNorm2D(c1, dim_out, "ResidualBlock.main"))
        c2 == Conv2D(n1, dim_out, dim_out, 3, 1, 1, "ResidualBlock.main")
    IN  InstanceNorm2D(c2, dim_out, "ResidualBlock.main")

\* (mutation of ResidualBlock.forward: the skip connection is left out)
ResidualBlock_forward_noskip(dim_in, dim_out, t) ==
    ResidualBlock_main(dim_in, dim_out, t)

\* ResidualBlock.forward: x + self.main(x).
ResidualBlock_forward(dim_in, dim_out, t) ==
    Broadcast(t, ResidualBlock_main(dim_in, dim_out, t), "ResidualBlock.add")

\* n ResidualBlock(dim, dim) layers in sequence (the "Bottleneck" loops).
RECURSIVE Bottleneck(_, _, _)
Bottleneck(t, dim, n) ==
    IF n = 0 THEN t
    ELSE Bottleneck(ResidualBlock_forward(dim, dim, t), dim, n - 1)

----------------------------------------------------------------------------
(* The feature encoders MDNet (lines 115-159) and TNetDown (lines 162-207). *)

\* (mutation of DownSample: stride 1 instead of 2)
DownSample_stride1(t, curr_dim, site) ==
    Elementwise(InstanceNorm2D(
        Conv2D(t, curr_dim, curr_dim * 2, 4, 1, 1, site), curr_dim * 2, site))

\* One down-sampling stage: conv 4x4 stride 2 padding 1 doubling the
\* channels, norm, ReLU.
DownSample(t, curr_dim, site) ==
    Elementwise(InstanceNorm2D(
        Conv2D(t, curr_dim, curr_dim * 2, 4, 2, 1, site), curr_dim * 2, site))

MDNet_forward(conv_dim, repeat_num, t) ==
    LET stem == Elementwise(InstanceNorm2D(
                    Conv2D(t, 3, conv_dim, 7, 1, 3, "MDNet"), conv_dim, "MDNet"))
        d1   == DownSample(stem, conv_dim, "MDNet")
        d2   == DownSample(d1, conv_dim * 2, "MDNet")
    IN  Bottleneck(d2, conv_dim * 4, repeat_num)

TNetDown_forward(conv_dim, repeat_num, t) ==
    LET stem == Elementwise(InstanceNorm2D(
                    Conv2D(t, 3, conv_dim, 7, 1, 3, "TNetDown"), conv_dim, "TNetDown"))
        d1   == DownSample(stem, conv_dim, "TNetDown")
        d2   == DownSample(d1, conv_dim * 2, "TNetDown")
    IN  Bottleneck(d2, conv_dim * 4, repeat_num)

----------------------------------------------------------------------------
(* GetMatrix (lines 210-229): two 1x1 convolutions to one channel each. *)

GetMatrix_forward(dim_in, dim_out, t) ==
    [gamma |-> Conv2D(t, dim_in, dim_out, 1, 1, 0, "GetMatrix.get_gamma"),
     beta  |-> Conv2D(t, dim_in, dim_out, 1, 1, 0, "GetMatrix.get_beta")]

----------------------------------------------------------------------------
(* MANet.forward (lines 293-337). *)

\* A statement runs only if the statements before it did not raise.
After(prev, t) == IF prev.ok THEN t ELSE prev

\* One up-sampling stage (lines 253-282, 330-334): transposed conv 4x4
\* stride 2 padding 1 halving the channels, norm, then the ReLU up_acts_i.
UpSample(t, curr_dim) ==
    Elementwise(InstanceNorm2D(
        Conv2DTranspose(t, curr_dim, curr_dim \div 2, 4, 2, 1, "MANet.up_samplers"),
        curr_dim \div 2, "MANet.up_samplers"))

\* The local variables of MANet.forward when it returns or raises: a local
\* the call did not come to assign holds the raised error (None before the
\* call). catX, catY and masked tell whether lines 302, 308 and 313 ran.
NoFrame == [x_enc |-> None, x_flat |-> None, y_flat |-> None, catX |-> FALSE,
            catY |-> FALSE, logits |-> None, masked |-> FALSE, a |-> None,
            gamma |-> None, beta |-> None, x_mod |-> None, out |-> None]

\* Lines 298-308: flatten the encoded source x_enc and the reference y, damp
\* them by self.w, concatenate the side channels that are given.
MANet_flatten(x_enc, y, x_p, y_p) ==
    LET c       == x_enc.shape[2]
        h       == x_enc.shape[3]
        w       == x_enc.shape[4]
        x_flat0 == Elementwise(ReshapeInfer(x_enc, <<c, h * w>>, "MANet.reshape_x"))
        x_flat  == IF IsNone(x_p) THEN x_flat0
                   ELSE Concat1(x_flat0, x_p, "MANet.concat_x")
        c2      == y.shape[2]
        h2      == y.shape[3]
        w2      == y.shape[4]
        y_flat0 == After(x_flat,
                     Elementwise(ReshapeInfer(y, <<c2, h2 * w2>>, "MANet.reshape_y")))
        y_flat  == IF IsNone(y_p) THEN y_flat0
                   ELSE Concat1(y_flat0, y_p, "MANet.concat_y")
    IN  [NoFrame EXCEPT !.x_enc  = x_enc,
                        !.x_flat = x_flat,
                        !.y_flat = y_flat,
                        !.catX   = x_flat0.ok /\ ~IsNone(x_p),
                        !.catY   = y_flat0.ok /\ ~IsNone(y_p)]

\* Lines 309-314: correlation logits, mask, softmax.
MANet_attend(f, consistency_mask) ==
    LET a_0 == After(f.y_flat,
                 Elementwise(Matmul(f.x_flat, f.y_flat, TRUE, "MANet.matmul")))
        a_  == IF IsNone(consistency_mask) THEN a_0
               ELSE Broadcast(a_0, consistency_mask, "MANet.mask")
    IN  [f EXCEPT !.logits = a_0,
                  !.masked = a_0.ok /\ ~IsNone(consistency_mask),
                  !.a      = Elementwise(a_)]

\* Lines 318-320 and 321-323: one modulation map m of simple_spade(y),
\* flattened, aggregated through a, reshaped.
MANet_aggregate(a, m, h2, w2, site) ==
    ReshapeInfer(
        Matmul(a, ReshapeInfer(m, <<h2 * w2, 1>>, site), FALSE, site),
        <<1, h2, w2>>, site)

\* Lines 316-324: gamma and beta from the reference, aggregated through the
\* attention matrix, applied to the encoded source.
MANet_modulate(f, curr_dim, y) ==
    LET spade == GetMatrix_forward(curr_dim, 1, y)
        beta  == MANet_aggregate(f.a, After(f.a, After(spade.gamma, spade.beta)),
                                 y.shape[3], y.shape[4], "MANet.beta")
        gamma == MANet_aggregate(f.a, After(beta, spade.gamma),
                                 y.shape[3], y.shape[4], "MANet.gamma")
    IN  [f EXCEPT !.beta  = beta,
                  !.gamma = gamma,
                  !.x_mod = Broadcast(Broadcast(f.x_enc, gamma, "MANet.modulate"),
                                      beta, "MANet.modulate")]

\* Lines 326-336: residual blocks, two up-sampling stages, img_reg, tanh.
MANet_decode(f, curr_dim, repeat_num) ==
    [f EXCEPT !.out =
        Elementwise(Conv2D(
            UpSample(UpSample(Bottleneck(f.x_mod, curr_dim, repeat_num), curr_dim),
                     curr_dim \div 2),
            (curr_dim \div 2) \div 2, 3, 7, 1, 3, "MANet.img_reg"))]

\* MANet.forward: the locals at its end.
MANet_forward(conv_dim, repeat_num, x, y, x_p, y_p, consistency_mask, mask_x, mask_y) ==
    MANet_decode(
        MANet_modulate(
            MANet_attend(
                MANet_flatten(TNetDown_forward(conv_dim, repeat_num, x), y, x_p, y_p),
                consistency_mask),
            conv_dim * 4, y),
        conv_dim * 4, repeat_num)

----------------------------------------------------------------------------
(* GeneratorPSGANAttention.forward (lines 347-351). *)

\* The value handed to the caller: the pair (out, a), or the raised error.
Returned(image, attn) == [raised |-> FALSE, err |-> "", at |-> "",
                          image |-> image.shape, attn |-> attn.shape]

Raised(e) == [raised |-> TRUE, err |-> e.err, at |-> e.at,
              image |-> <<>>, attn |-> <<>>]

\* Lines 350-351: what the call that got the locals f from self.ma_net gives.
Outcome(y_enc, f) ==
    [y |-> y_enc, frame |-> f,
     ret |-> IF f.out.ok THEN Returned(f.out, f.a) ELSE Raised(f.out)]

\* Line 350 with the encoded reference y_enc of line 349; an error raised by
\* self.md_net leaves forward before self.ma_net is called.
MANet_call(conv_dim, repeat_num, x, y_enc, x_p, y_p, consistency_mask, mask_x, mask_y) ==
    IF ~y_enc.ok
    THEN [y |-> y_enc, frame |-> NoFrame, ret |-> Raised(y_enc)]
    ELSE Outcome(y_enc, MANet_forward(conv_dim, repeat_num, x, y_enc, x_p, y_p,
                                      consistency_mask, mask_x, mask_y))

\* (mutation of GeneratorPSGANAttention.forward: the reference image is
\* multiplied by mask_y when it is given)
GeneratorPSGANAttention_forward_masked(conv_dim, repeat_num, x, y, x_p, y_p, consistency_mask, mask_x, mask_y) ==
    MANet_call(conv_dim, repeat_num, x,
               MDNet_forward(conv_dim, repeat_num,
                             IF IsNone(mask_y) THEN y ELSE Broadcast(y, mask_y, "mask_y")),
               x_p, y_p, consistency_mask, mask_x, mask_y)

\* [y |-> the encoded reference, frame |-> MANet.forward's locals, ret |-> ...]
GeneratorPSGANAttention_forward(conv_dim, repeat_num, x, y, x_p, y_p, consistency_mask, mask_x, mask_y) ==
    MANet_call(conv_dim, repeat_num, x, MDNet_forward(conv_dim, repeat_num, y),
               x_p, y_p, consistency_mask, mask_x, mask_y)

----------------------------------------------------------------------------
(* The value view: exact rational arithmetic. *)

\* self.w = 0.01 (MANet.__init__ default w): the damping factor is 1 / WInv
WInv == 100
\* the factor 200.0 applied to the correlation
CorrScale == 200
\* the constant 100.0 subtracted from a logit whose mask entry is 0
Suppress == 100

RECURSIVE GCD(_, _)
GCD(a, b) == IF b = 0 THEN a ELSE GCD(b, a % b)

Abs(n) == IF n < 0 THEN -n ELSE n

\* the rational n / d (d # 0) in lowest terms with a positive denominator
Rat(n, d) ==
    LET g == GCD(Abs(n), Abs(d))
        sgn == IF d < 0 THEN -1 ELSE 1
    IN  <<sgn * (n \div g), sgn * (d \div g)>>

RInt(n) == <<n, 1>>

RNeg(p) == <<-p[1], p[2]>>

\* the sum over the least common denominator
RAdd(p, q) ==
    LET g == GCD(p[2], q[2])
    IN  Rat(p[1] * (q[2] \div g) + q[1] * (p[2] \div g), (p[2] \div g) * q[2])

RSub(p, q) == RAdd(p, RNeg(q))

RMul(p, q) == Rat(p[1] * q[1], p[2] * q[2])

RDiv(p, q) == Rat(p[1] * q[2], p[2] * q[1])

RLeq(p, q) == p[1] * q[2] <= q[1] * p[2]

RECURSIVE RSum(_)
RSum(seq) == IF seq = <<>> THEN RInt(0) ELSE RAdd(Head(seq), RSum(Tail(seq)))

RECURSIVE Pow2(_)
Pow2(k) == IF k = 0 THEN 1 ELSE 2 * Pow2(k - 1)

\* The exponential function of F.softmax. exp is modelled by the exponential
\* with base 2^(1/100), on the logits that are whole multiples of 100 (the
\* feature values below are chosen so that every logit is one): it is
\* positive, strictly increasing and turns sums into products, which is all
\* the properties checked here use of exp.
Exp(q) ==
    LET k == q[1] \div (100 * q[2])
    IN  IF k >= 0 THEN <<Pow2(k), 1>> ELSE <<1, Pow2(-k)>>

\* (mutation of Softmax: normalised over the rows' axis, axis=0 of the matrix)
Softmax_axis0(m) ==
    [i \in 1..Len(m) |->
        [j \in 1..Len(m[i]) |->
            RDiv(Exp(m[i][j]), RSum([k \in 1..Len(m) |-> Exp(m[k][j])]))]]

\* F.softmax(m, axis=-1) of a matrix given as the tuple of its rows
Softmax(m) ==
    [i \in 1..Len(m) |->
        LET e == [j \in 1..Len(m[i]) |-> Exp(m[i][j])]
            s == RSum(e)
        IN  [j \in 1..Len(m[i]) |-> RDiv(e[j], s)]]

\* self.w * t for a (channels, positions) matrix of integers
Damp(t) == [c \in 1..Len(t) |-> [i \in 1..Len(t[c]) |-> Rat(t[c][i], WInv)]]

\* an integer matrix as a matrix of rationals
AsRat(t) == [c \in 1..Len(t) |-> [i \in 1..Len(t[c]) |-> RInt(t[c][i])]]

\* paddle.matmul(xf, yf, transpose_x=True) * 200.0 for (channels, positions)
\* matrices with the same number of channels
Correlate(xf, yf) ==
    [i \in 1..Len(xf[1]) |-> [j \in 1..Len(yf[1]) |->
        RMul(RInt(CorrScale),
             RSum([c \in 1..Len(xf) |-> RMul(xf[c][i], yf[c][j])]))]]

\* (mutation of MaskLogits: a_ * consistency_mask)
MaskLogits_multiply(a_, mask) ==
    [i \in 1..Len(a_) |-> [j \in 1..Len(a_[i]) |->
        RMul(a_[i][j], RInt(mask[i][j]))]]

\* a_ - 100.0 * (1 - consistency_mask)
MaskLogits(a_, mask) ==
    [i \in 1..Len(a_) |-> [j \in 1..Len(a_[i]) |->
        RSub(a_[i][j], RInt(Suppress * (1 - mask[i][j])))]]

\* a 1x1 convolution without bias to one channel: per position, the
\* weighted sum of the channels
Conv1x1(wt, y) ==
    [j \in 1..Len(y[1]) |-> RSum([c \in 1..Len(y) |-> RInt(wt[c] * y[c][j])])]

\* paddle.matmul(a, v) for a column v given as the tuple of its entries
Aggregate(a, v) ==
    [i \in 1..Len(a) |-> RSum([j \in 1..Len(v) |-> RMul(a[i][j], v[j])])]

NoVal == <<>>

\* (mutation of MANet_attention: the mask is applied only when x_p is given)
MANet_attention_coupled(x, y, x_p, y_p, consistency_mask, w_gamma, w_beta) ==
    LET x_flat == IF x_p # NoVal THEN Damp(x) \o AsRat(x_p) ELSE Damp(x)
        y_flat == IF y_p # NoVal THEN Damp(y) \o AsRat(y_p) ELSE Damp(y)
    IN  IF Len(x_flat) # Len(y_flat)
        THEN [raised |-> TRUE, at |-> "MANet.matmul",
              catX |-> x_p # NoVal, catY |-> y_p # NoVal, masked |-> FALSE,
              logits |-> NoVal, a_ |-> NoVal, a |-> NoVal, gamma_ref |-> NoVal,
              beta_ref |-> NoVal, gamma |-> NoVal, beta |-> NoVal]
        ELSE LET logits == Correlate(x_flat, y_flat)
                 a_     == IF consistency_mask # NoVal /\ x_p # NoVal
                           THEN MaskLogits(logits, consistency_mask)
                           ELSE logits
                 a      == Softmax(a_)
                 g      == Conv1x1(w_gamma, y)
                 b      == Conv1x1(w_beta, y)
             IN  [raised |-> FALSE, at |-> "",
                  catX |-> x_p # NoVal, catY |-> y_p # NoVal,
                  masked |-> consistency_mask # NoVal /\ x_p # NoVal,
                  logits |-> logits, a_ |-> a_, a |-> a,
                  gamma_ref |-> g, beta_ref |-> b,
                  gamma |-> Aggregate(a, g), beta |-> Aggregate(a, b)]

\* Lines 299-323 of MANet.forward for one batch element. x and y are the
\* encoded source and reference feature maps as (channels, positions)
\* matrices; x_p, y_p and consistency_mask are NoVal when absent; w_gamma and
\* w_beta are the weights of simple_spade.
MANet_attention(x, y, x_p, y_p, consistency_mask, w_gamma, w_beta) ==
    LET x_flat == IF x_p # NoVal THEN Damp(x) \o AsRat(x_p) ELSE Damp(x)
        y_flat == IF y_p # NoVal THEN Damp(y) \o AsRat(y_p) ELSE Damp(y)
    IN  IF Len(x_flat) # Len(y_flat)
        THEN [raised |-> TRUE, at |-> "MANet.matmul",
              catX |-> x_p # NoVal, catY |-> y_p # NoVal, masked |-> FALSE,
              logits |-> NoVal, a_ |-> NoVal, a |-> NoVal, gamma_ref |-> NoVal,
              beta_ref |-> NoVal, gamma |-> NoVal, beta |-> NoVal]
        ELSE LET logits == Correlate(x_flat, y_flat)
                 a_     == IF consistency_mask # NoVal
                           THEN MaskLogits(logits, consistency_mask)
                           ELSE logits
                 a      == Softmax(a_)
                 g      == Conv1x1(w_gamma, y)
                 b      == Conv1x1(w_beta, y)
             IN  [raised |-> FALSE, at |-> "",
                  catX |-> x_p # NoVal, catY |-> y_p # NoVal,
                  masked |-> consistency_mask # NoVal,
                  logits |-> logits, a_ |-> a_, a |-> a,
                  gamma_ref |-> g, beta_ref |-> b,
                  gamma |-> Aggregate(a, g), beta |-> Aggregate(a, b)]

----------------------------------------------------------------------------
(* The state of the shape view. *)

VARIABLES
    pc,      \* "idle", "block", "block_called", "encoded" or "returned"
    gen,     \* the constructed GeneratorPSGANAttention: conv_dim, repeat_num
    blk,     \* the last ResidualBlock(dim_in, dim_out, mode): mode, and the block or the error
    blkIn,   \* the tensor handed to blk.forward
    blkOut,  \* what blk.forward gave
    enc,     \* the last stand-alone encoder call: parameters, input, outputs
    args,    \* the arguments of the last GeneratorPSGANAttention.forward call
    res,     \* its outcome: encoded reference, MANet.forward's locals, return value
    num      \* the state of the value view (attention core)

vars == <<pc, gen, blk, blkIn, blkOut, enc, args, res, num>>

Sizes == 1..MaxSize

Batches == 1..MaxB

NoBlock == [mode |-> "",
            self |-> [ok |-> FALSE, dim_in |-> 0, dim_out |-> 0,
                      weight_attr |-> "", bias_attr |-> "", err |-> "None"]]

NoEnc == [conv_dim |-> 0, repeat_num |-> 0, x |-> None, md |-> None, tnet |-> None]

NoArgs == [x |-> None, y |-> None, x_p |-> None, y_p |-> None,
           consistency_mask |-> None, mask_x |-> None, mask_y |-> None]

NoRes == [y |-> None, frame |-> NoFrame, ret |-> Raised(None)]

NoNum == [called |-> FALSE]

\* Number of positions of the encoded feature map of an H x W image, as a
\* caller computes it to build side channels and the consistency mask.
Positions(H, W) ==
    LET n == (H \div 4) * (W \div 4) IN IF n = 0 THEN 1 ELSE n

\* The optional side channel of an image: absent, or (B, channels, positions).
SideChannels(B, H, W) ==
    {None} \cup {Tensor(<<B, ch, Positions(H, W)>>) : ch \in 1..MaxSide}

\* The optional consistency mask: absent, or (B, source positions, reference positions).
ConsistencyMasks(B, xH, xW, yH, yW) ==
    {None, Tensor(<<B, Positions(xH, xW), Positions(yH, yW)>>)}

\* mask_x / mask_y: absent, a region mask of the image, or a tensor of
\* another shape altogether.
RegionMasks(B, H, W) == {None, Tensor(<<B, 1, H, W>>), Tensor(<<B + 1>>)}

ShapeInit ==
    /\ pc = "idle"
    /\ gen \in [conv_dim : 1..MaxConvDim, repeat_num : 0..MaxRepeat]
    /\ blk = NoBlock
    /\ blkIn = None
    /\ blkOut = None
    /\ enc = NoEnc
    /\ args = NoArgs
    /\ res = NoRes

Init == ShapeInit /\ num = NoNum

\* ResidualBlock(dim_in, dim_out, mode)
NewResidualBlock ==
    /\ pc = "idle"
    /\ \E dim_in \in 1..MaxDim, dim_out \in 1..MaxDim, mode \in Modes :
           blk' = [mode |-> mode, self |-> ResidualBlock_init(dim_in, dim_out, mode)]
    /\ pc' = "block"
    /\ UNCHANGED <<gen, blkIn, blkOut, enc, args, res, num>>

\* blk(x) for an input with dim_in channels
CallResidualBlock ==
    /\ pc = "block"
    /\ blk.self.ok
    /\ \E B \in Batches, H \in 1..MaxDim, W \in 1..MaxDim :
           /\ blkIn' = Tensor(<<B, blk.self.dim_in, H, W>>)
           /\ blkOut' = ResidualBlock_forward(blk.self.dim_in, blk.self.dim_out, blkIn')
    /\ pc' = "block_called"
    /\ UNCHANGED <<gen, blk, enc, args, res, num>>

\* MDNet(conv_dim, repeat_num)(x) and TNetDown(conv_dim, repeat_num)(x)
\* on the same 3-channel image
CallEncoders ==
    /\ pc = "idle"
    /\ \E conv_dim \in 1..MaxConvDim, repeat_num \in 0..MaxRepeat,
          B \in Batches, H \in Sizes, W \in Sizes :
           LET x == Tensor(<<B, 3, H, W>>)
           IN  enc' = [conv_dim |-> conv_dim, repeat_num |-> repeat_num, x |-> x,
                       md   |-> MDNet_forward(conv_dim, repeat_num, x),
                       tnet |-> TNetDown_forward(conv_dim, repeat_num, x)]
    /\ pc' = "encoded"
    /\ UNCHANGED <<gen, blk, blkIn, blkOut, args, res, num>>

DoForward(a) ==
    /\ args' = a
    /\ res' = GeneratorPSGANAttention_forward(
                  gen.conv_dim, gen.repeat_num, a.x, a.y, a.x_p, a.y_p,
                  a.consistency_mask, a.mask_x, a.mask_y)
    /\ pc' = "returned"
    /\ UNCHANGED <<gen, blk, blkIn, blkOut, enc, num>>

\* generator(x, y, None, None, None, None, None): source and reference
\* images of any two sizes, every optional argument absent
Forward ==
    /\ pc = "idle"
    /\ \E B \in Batches, xH \in Sizes, xW \in Sizes, yH \in Sizes, yW \in Sizes :
           DoForward([x |-> Tensor(<<B, 3, xH, xW>>), y |-> Tensor(<<B, 3, yH, yW>>),
                      x_p |-> None, y_p |-> None, consistency_mask |-> None,
                      mask_x |-> None, mask_y |-> None])

\* generator(x, y, x_p, y_p, consistency_mask, mask_x, mask_y): square source
\* and reference images of one size, every optional argument absent or present
ForwardOptional ==
    /\ pc = "idle"
    /\ \E B \in Batches, H \in Sizes :
       \E x_p \in SideChannels(B, H, H), y_p \in SideChannels(B, H, H),
          cm \in ConsistencyMasks(B, H, H, H, H),
          mx \in RegionMasks(B, H, H), my \in RegionMasks(B, H, H) :
           DoForward([x |-> Tensor(<<B, 3, H, H>>), y |-> Tensor(<<B, 3, H, H>>),
                      x_p |-> x_p, y_p |-> y_p, consistency_mask |-> cm,
                      mask_x |-> mx, mask_y |-> my])

\* the caller drops the results; the modules keep no state between calls
Reset ==
    /\ pc # "idle"
    /\ pc' = "idle"
    /\ blk' = NoBlock
    /\ blkIn' = None
    /\ blkOut' = None
    /\ enc' = NoEnc
    /\ args' = NoArgs
    /\ res' = NoRes
    /\ UNCHANGED <<gen, num>>

Next ==
    \/ NewResidualBlock
    \/ CallResidualBlock
    \/ CallEncoders
    \/ Forward
    \/ ForwardOptional
    \/ Reset

Spec == Init /\ [][Next]_vars

----------------------------------------------------------------------------
(* The state machine of the value view. *)

\* feature values of the encoded source and reference maps; every product
\* x * y is a multiple of 5000, so every logit 200 * (x/100) * (y/100) is a
\* multiple of 100
XVals == {5000, 10000}

YVals == {-1, 1}

\* the weights of simple_spade.get_gamma and simple_spade.get_beta
Weights == {<<[c \in 1..NumChan |-> c], [c \in 1..NumChan |-> 1 - 2 * c]>>}

\* the rows of the consistency masks tried: a source position is allowed no
\* reference position, exactly one, or every one
MaskRows ==
    {r \in [1..NumRef -> {0, 1}] :
        \/ \A j \in 1..NumRef : r[j] = 1
        \/ \A j, k \in 1..NumRef : (r[j] = 1 /\ r[k] = 1) => j = k}

\* the side channel of n positions: one channel holding the position's coordinate
Coordinates(n) == <<[i \in 1..n |-> i]>>

NoOut == [raised |-> FALSE, at |-> "", catX |-> FALSE, catY |-> FALSE,
          masked |-> FALSE, logits |-> NoVal, a_ |-> NoVal, a |-> NoVal,
          gamma_ref |-> NoVal, beta_ref |-> NoVal, gamma |-> NoVal, beta |-> NoVal]

NoIn == [x |-> NoVal, y |-> NoVal, x_p |-> NoVal, y_p |-> NoVal,
         consistency_mask |-> NoVal]

NumInit ==
    /\ pc = "idle"
    /\ gen = [conv_dim |-> 1, repeat_num |-> 0]
    /\ blk = NoBlock
    /\ blkIn = None
    /\ blkOut = None
    /\ enc = NoEnc
    /\ args = NoArgs
    /\ res = NoRes
    /\ \E wt \in Weights :
           num = [called |-> FALSE, w_gamma |-> wt[1], w_beta |-> wt[2],
                  in |-> NoIn, out |-> NoOut]

\* x, y = self.encoder(x), self.encoder(y): the feature maps of one call;
\* the channels of the source features carry the same value at a position
Encode ==
    /\ ~num.called
    /\ num.in = NoIn
    /\ \E xs \in [1..NumSrc -> XVals],
          y \in [1..NumChan -> [1..NumRef -> YVals]] :
           num' = [num EXCEPT !.in = [NoIn EXCEPT !.x = [c \in 1..NumChan |-> xs],
                                                 !.y = y]]
    /\ UNCHANGED <<pc, gen, blk, blkIn, blkOut, enc, args, res>>

\* the attention core of the call, on the encoded feature maps
Attend ==
    /\ ~num.called
    /\ num.in # NoIn
    /\ \E x_p \in {NoVal, Coordinates(NumSrc)},
          y_p \in {NoVal, Coordinates(NumRef)},
          cm \in {NoVal} \cup [1..NumSrc -> MaskRows] :
           num' = [num EXCEPT
                     !.called = TRUE,
                     !.in = [num.in EXCEPT !.x_p = x_p, !.y_p = y_p,
                                           !.consistency_mask = cm],
                     !.out = MANet_attention(num.in.x, num.in.y, x_p, y_p, cm,
                                             num.w_gamma, num.w_beta)]
    /\ UNCHANGED <<pc, gen, blk, blkIn, blkOut, enc, args, res>>

\* the call's tensors are dropped; the parameters stay
Forget ==
    /\ num.called
    /\ num' = [num EXCEPT !.called = FALSE, !.in = NoIn, !.out = NoOut]
    /\ UNCHANGED <<pc, gen, blk, blkIn, blkOut, enc, args, res>>

NumNext == Encode \/ Attend \/ Forget

SpecNum == NumInit /\ [][NumNext]_vars

----------------------------------------------------------------------------
(* Claims on the shape view (specification Spec). *)

Fl4(n) == n \div 4

\* a generator call has returned or raised, and its source image is (B, 3, H, W)
Called == pc = "returned"

ArgB == args.x.shape[1]

ArgH == args.x.shape[3]

ArgW == args.x.shape[4]

NoOptional ==
    /\ IsNone(args.x_p)
    /\ IsNone(args.y_p)
    /\ IsNone(args.consistency_mask)

\* the case of C1: same-shaped source and reference, no side channels, no mask
C1_Case == Called /\ NoOptional /\ args.x.shape = args.y.shape

\* C1 as stated: for every source and reference image of one shape (B,3,H,W),
\* with x_p, y_p and consistency_mask absent, forward returns an image of shape
\* (B,3,H,W) and an attention matrix of shape (B, fl(H/4)*fl(W/4), fl(H/4)*fl(W/4)).
C1_AsStated ==
    C1_Case =>
        /\ ~res.ret.raised
        /\ res.ret.image = <<ArgB, 3, ArgH, ArgW>>
        /\ res.ret.attn = <<ArgB, Fl4(ArgH) * Fl4(ArgW), Fl4(ArgH) * Fl4(ArgW)>>

\* the default generator on a 1x3x256x256 pair
C1_At256 ==
    LET img == Tensor(<<1, 3, 256, 256>>)
        r   == GeneratorPSGANAttention_forward(64, 3, img, img, None, None,
                                               None, None, None)
    IN  r.ret = [raised |-> FALSE, err |-> "", at |-> "",
                 image |-> <<1, 3, 256, 256>>, attn |-> <<1, 4096, 4096>>]

\* C1 amended: with H >= 4 and W >= 4 the image returned has shape
\* (B, 3, 4*fl(H/4), 4*fl(W/4)), which is (B,3,H,W) exactly when H and W are
\* multiples of 4, and the attention matrix has shape
\* (B, fl(H/4)*fl(W/4), fl(H/4)*fl(W/4)); a 1x3x256x256 pair gives
\* (1,3,256,256) and (1,4096,4096).
C1_Amended ==
    /\ C1_Case /\ ArgH >= 4 /\ ArgW >= 4 =>
        /\ ~res.ret.raised
        /\ res.ret.image = <<ArgB, 3, 4 * Fl4(ArgH), 4 * Fl4(ArgW)>>
        /\ res.ret.attn = <<ArgB, Fl4(ArgH) * Fl4(ArgW), Fl4(ArgH) * Fl4(ArgW)>>
        /\ (res.ret.image = args.x.shape <=> (ArgH % 4 = 0 /\ ArgW % 4 = 0))
    /\ pc = "idle" => C1_At256

C1_Witness ==
    /\ C1_Case
    /\ ArgH = 8
    /\ ArgW = 4
    /\ ArgB = 2
    /\ gen.repeat_num = 1
    /\ res.ret.image = <<2, 3, 8, 4>>
    /\ res.ret.attn = <<2, 2, 2>>

EncB == enc.x.shape[1]

EncH == enc.x.shape[3]

EncW == enc.x.shape[4]

EncShape == <<EncB, enc.conv_dim * 4, Fl4(EncH), Fl4(EncW)>>

\* C2 as stated: for every conv_dim, repeat_num and 3-channel H x W input both
\* encoders return a feature map with conv_dim*4 channels and spatial size
\* fl(H/4) x fl(W/4).
C2_AsStated ==
    pc = "encoded" =>
        /\ enc.md.ok /\ enc.md.shape = EncShape
        /\ enc.tnet.ok /\ enc.tnet.shape = EncShape

\* C2 amended: with H >= 4 and W >= 4 both encoders return a feature map of
\* shape (B, conv_dim*4, fl(H/4), fl(W/4)), the same as without residual blocks
\* (repeat_num = 0).
C2_Amended ==
    (pc = "encoded" /\ EncH >= 4 /\ EncW >= 4) =>
        /\ enc.md.ok /\ enc.md.shape = EncShape
        /\ enc.tnet.ok /\ enc.tnet.shape = EncShape
        /\ enc.md = MDNet_forward(enc.conv_dim, 0, enc.x)
        /\ enc.tnet = TNetDown_forward(enc.conv_dim, 0, enc.x)

C2_Witness ==
    /\ pc = "encoded"
    /\ enc.conv_dim = 2
    /\ enc.repeat_num = 1
    /\ EncH = 7
    /\ EncW = 8
    /\ enc.md.shape = <<EncB, 8, 1, 2>>
    /\ enc.tnet.shape = <<EncB, 8, 1, 2>>

BlockCalled == pc = "block_called"

\* C3 as stated: with dim_in = dim_out the output has the input's shape; with
\* dim_in # dim_out, for every such pair, forward raises ShapeMismatch at the
\* residual add.
C3_AsStated ==
    BlockCalled =>
        /\ blk.self.dim_in = blk.self.dim_out =>
               blkOut.ok /\ blkOut.shape = blkIn.shape
        /\ blk.self.dim_in # blk.self.dim_out =>
               IsRaised(blkOut) /\ blkOut.err = "ShapeMismatch"
                                /\ blkOut.at = "ResidualBlock.add"

MaxOf(a, b) == IF a >= b THEN a ELSE b

\* C3 amended: with dim_in = dim_out the output has the input's shape; with
\* dim_in # dim_out and neither of them 1, forward raises ShapeMismatch at the
\* residual add; with dim_in # dim_out and one of them 1, the add broadcasts
\* and forward returns a tensor with max(dim_in, dim_out) channels and the
\* input's batch and spatial sizes.
C3_Amended ==
    BlockCalled =>
        /\ blk.self.dim_in = blk.self.dim_out =>
               blkOut.ok /\ blkOut.shape = blkIn.shape
        /\ (blk.self.dim_in # blk.self.dim_out
                /\ blk.self.dim_in # 1 /\ blk.self.dim_out # 1) =>
               IsRaised(blkOut) /\ blkOut.err = "ShapeMismatch"
                                /\ blkOut.at = "ResidualBlock.add"
        /\ (blk.self.dim_in # blk.self.dim_out
                /\ (blk.self.dim_in = 1 \/ blk.self.dim_out = 1)) =>
               /\ blkOut.ok
               /\ blkOut.shape = <<blkIn.shape[1],
                                   MaxOf(blk.self.dim_in, blk.self.dim_out),
                                   blkIn.shape[3], blkIn.shape[4]>>

C3_Witness ==
    /\ BlockCalled
    /\ blk.self.dim_in = 2
    /\ blk.self.dim_out = 3
    /\ IsRaised(blkOut)
    /\ blkOut.at = "ResidualBlock.add"

\* C4 as stated: constructing a ResidualBlock with a mode other than 't', 'p'
\* or None completes, with weight_attr = None and bias_attr = None as for 'p'.
C4_AsStated ==
    (pc = "block" /\ blk.mode \notin {"t", "p", "None"}) =>
        /\ blk.self.ok
        /\ blk.self.weight_attr = "None"
        /\ blk.self.bias_attr = "None"

\* number of side channels concatenated: 0 when the argument is absent
SideCount(t) == IF IsNone(t) THEN 0 ELSE t.shape[2]

\* C8: whenever the numbers of side channels of source and reference differ,
\* forward raises ShapeMismatch and hands back neither image nor attention
\* matrix; when both encoders succeed the raising statement is the
\* correlation matmul.
C8_SideMismatchRaises ==
    (Called /\ SideCount(args.x_p) # SideCount(args.y_p)) =>
        /\ res.ret = [raised |-> TRUE, err |-> "ShapeMismatch", at |-> res.ret.at,
                      image |-> <<>>, attn |-> <<>>]
        /\ (ArgH >= 4 /\ ArgW >= 4) =>
               /\ res.ret.at = "MANet.matmul"
               /\ res.frame.x_flat.ok
               /\ res.frame.y_flat.ok
               /\ IsRaised(res.frame.logits)

C8_Witness ==
    /\ Called
    /\ SideCount(args.x_p) = 1
    /\ IsNone(args.y_p)
    /\ ArgH = 8
    /\ res.ret.raised
    /\ res.ret.at = "MANet.matmul"

\* C9 as stated: whenever the source is encoded and the reference is encoded,
\* gamma and beta are reshaped to (B, 1, h, w) with (h, w) the spatial size of
\* the encoded source, and the modulated feature map keeps the shape of the
\* encoded source.
C9_AsStated ==
    (Called /\ NoOptional /\ res.y.ok /\ res.frame.x_enc.ok) =>
        LET h == res.frame.x_enc.shape[3]
            w == res.frame.x_enc.shape[4]
        IN  /\ res.frame.gamma.ok
            /\ res.frame.gamma.shape = <<ArgB, 1, h, w>>
            /\ res.frame.beta.ok
            /\ res.frame.beta.shape = <<ArgB, 1, h, w>>
            /\ res.frame.x_mod.ok
            /\ res.frame.x_mod.shape = res.frame.x_enc.shape

\* C10: mask_x and mask_y do not influence the outcome: the outcome of a call
\* (the encoded reference, every local of MANet.forward, the value returned or
\* the error raised) is the outcome of the call with the same x, y, x_p, y_p
\* and consistency_mask and with mask_x and mask_y absent.
C10_MasksIgnored ==
    Called =>
        /\ res = GeneratorPSGANAttention_forward(
                    gen.conv_dim, gen.repeat_num, args.x, args.y, args.x_p,
                    args.y_p, args.consistency_mask, None, None)
        /\ (res.y.ok =>
               res.frame = MANet_forward(
                    gen.conv_dim, gen.repeat_num, args.x, res.y, args.x_p,
                    args.y_p, args.consistency_mask, None, None))

C10_Witness ==
    /\ Called
    /\ args.mask_x = Tensor(<<ArgB + 1>>)
    /\ args.mask_y = Tensor(<<ArgB, 1, ArgH, ArgW>>)
    /\ ~IsNone(args.consistency_mask)
    /\ ~res.ret.raised

----------------------------------------------------------------------------
(* Claims on the value view (specification SpecNum). *)

\* the attention core ran to its end
Attended == num.called /\ ~num.out.raised

Rows == 1..NumSrc

Cols == 1..NumRef

ZeroRow(i) == \A j \in Cols : num.in.consistency_mask[i][j] = 0

UniformRow(i) == \A j \in Cols : num.out.a[i][j] = Rat(1, NumRef)

FlatRow(i) == \A j, k \in Cols : num.out.logits[i][j] = num.out.logits[i][k]

\* C5 as stated: when the mask row of a source position is all zero, the
\* position's attention row is uniform whatever its raw logits are.
C5_AsStated ==
    (Attended /\ num.in.consistency_mask # NoVal) =>
        \A i \in Rows : ZeroRow(i) => UniformRow(i)

\* C5 amended: when the mask row of a source position is all zero, the
\* position's attention row is the softmax of its raw logits, the row it has
\* without any mask; it is uniform exactly when the raw logits of the row are
\* all equal; the all-zero row makes no call fail.
C5_Amended ==
    /\ (Attended /\ num.in.consistency_mask # NoVal) =>
           \A i \in Rows : ZeroRow(i) =>
               /\ num.out.a[i] = Softmax(<<num.out.logits[i]>>)[1]
               /\ UniformRow(i) <=> FlatRow(i)
    /\ (num.called /\ num.out.raised) =>
           (num.in.x_p = NoVal) # (num.in.y_p = NoVal)

C5_Witness ==
    /\ Attended
    /\ num.in.consistency_mask # NoVal
    /\ ZeroRow(1)
    /\ ~FlatRow(1)
    /\ ~UniformRow(1)

Between(v, vals) ==
    /\ \E j \in 1..Len(vals) : RLeq(vals[j], v)
    /\ \E j \in 1..Len(vals) : RLeq(v, vals[j])

\* C6: without a consistency mask every attention row has non-negative
\* entries that sum to 1, with or without side channels, and the aggregated
\* gamma and beta of a source position lie between the least and the greatest
\* value of the reference positions.
C6_RowStochastic ==
    (Attended /\ num.in.consistency_mask = NoVal) =>
        \A i \in Rows :
            /\ \A j \in Cols : num.out.a[i][j][1] >= 0 /\ num.out.a[i][j][2] > 0
            /\ RSum(num.out.a[i]) = RInt(1)
            /\ Between(num.out.gamma[i], num.out.gamma_ref)
            /\ Between(num.out.beta[i], num.out.beta_ref)

C6_Witness ==
    /\ Attended
    /\ num.in.consistency_mask = NoVal
    /\ num.in.x_p # NoVal
    /\ ~UniformRow(1)
    /\ \E j, k \in Cols : num.out.gamma_ref[j] # num.out.gamma_ref[k]
    /\ \A j \in Cols : num.out.gamma[1] # num.out.gamma_ref[j]

\* the same call with the consistency mask taken away
WithoutMask ==
    MANet_attention(num.in.x, num.in.y, num.in.x_p, num.in.y_p, NoVal,
                    num.w_gamma, num.w_beta)

\* the same call with both side channels taken away
WithoutSide ==
    MANet_attention(num.in.x, num.in.y, NoVal, NoVal, num.in.consistency_mask,
                    num.w_gamma, num.w_beta)

\* what masking took off each logit
Suppressed(out) ==
    [i \in Rows |-> [j \in Cols |-> RSub(out.logits[i][j], out.a_[i][j])]]

\* C7: the side-channel toggle and the mask toggle are independent. The call
\* raises exactly when one of x_p, y_p is given without the other, whatever the
\* mask; the raw logits do not depend on the mask: they are those of the call
\* without mask, and with both side channels they are those of the call
\* without side channels plus 200 * x_p[i] * y_p[j]; what masking takes off
\* the logits does not depend on the side channels: it is 100 * (1 - mask)
\* with a mask and nothing without; and the attention is the softmax of the
\* logits so obtained in each of the four combinations.
C7_TogglesIndependent ==
    num.called =>
        \A bare \in {WithoutMask}, plain \in {WithoutSide} :
            /\ num.out.raised <=> ((num.in.x_p = NoVal) # (num.in.y_p = NoVal))
            /\ num.out.raised = bare.raised
            /\ ~num.out.raised =>
                /\ num.out.logits = bare.logits
                /\ \A i \in Rows, j \in Cols :
                       num.out.logits[i][j] =
                           RAdd(plain.logits[i][j],
                                IF num.in.x_p = NoVal THEN RInt(0)
                                ELSE RInt(CorrScale * num.in.x_p[1][i] * num.in.y_p[1][j]))
                /\ Suppressed(num.out) = Suppressed(plain)
                /\ \A i \in Rows, j \in Cols :
                       Suppressed(num.out)[i][j] =
                           IF num.in.consistency_mask = NoVal THEN RInt(0)
                           ELSE RInt(Suppress * (1 - num.in.consistency_mask[i][j]))
                /\ num.out.a = Softmax(num.out.a_)

C7_Witness ==
    /\ Attended
    /\ num.in.x_p # NoVal
    /\ num.in.y_p # NoVal
    /\ num.in.consistency_mask # NoVal
    /\ \E j, k \in Cols : num.in.consistency_mask[1][j] # num.in.consistency_mask[1][k]
    /\ num.out.a # WithoutMask.a
    /\ num.out.a # WithoutSide.a

====
